---- MODULE Spec2Model ----
(***************************************************************************)
(* Model of harmonized_qaqc/generate_qaqc_data.py: the load-filter-        *)
(* aggregate pipeline (get_var_label_lookup, load_measurement_observations,*)
(* summarize_observations, main).                                          *)
(*                                                                         *)
(* A DataFrame is a record [columns, rows]; a row carries every field the  *)
(* pipeline looks at, and the field of a column the frame does not have    *)
(* is NaN, exactly what pd.concat leaves there.  Numbers are held in       *)
(* thousandths (round(x, 3) keeps three decimals).                         *)
(***************************************************************************)
EXTENDS Integers, Sequences, FiniteSets, TLC

\* ------------------------------------------------------------------ bounds
MaxFiles == 2       \* files discovery yields in one run
MaxRows == 2        \* data rows of one file
MaxDfRows == 2      \* rows of a frame handed directly to summarize_observations

\* ---------------------------------------------------------------- literals
NaN == "<NaN>"                      \* pandas missing value (empty field read with dtype=str)
Codes == {"bmi_1", "unknown_x"}     \* observation_type values found in files
CodeOrder == <<"bmi_1", "unknown_x">>   \* their lexicographic order
Parts == {"p1", "p2"}               \* associated_participant values
ColObs == "observation_type"
ColPart == "associated_participant"
ColDec == "value_quantity__value_decimal"
ColCon == "value_quantity__value_concept"
ColSrcFile == "source_file"
ColSrcDir == "source_dir"
DataCols == {ColObs, ColPart, ColDec, ColCon}
TopN == 5                           \* .head(5)

\* ------------------------------------------------------------ small helpers
RECURSIVE SelectIdx(_, _, _)
\* the elements of s at the positions where mask is TRUE, in order (df[mask])
SelectIdx(s, mask, i) ==
    IF i > Len(s) THEN << >>
    ELSE IF mask[i] THEN <<s[i]>> \o SelectIdx(s, mask, i + 1)
         ELSE SelectIdx(s, mask, i + 1)

BoolFilter(s, mask) == SelectIdx(s, mask, 1)

RECURSIVE Flatten(_)
Flatten(ss) == IF ss = << >> THEN << >> ELSE Head(ss) \o Flatten(Tail(ss))

RECURSIVE UnionCols(_)
UnionCols(ds) == IF ds = << >> THEN {} ELSE Head(ds).columns \cup UnionCols(Tail(ds))

\* Series.nunique(): distinct non-missing values
NUnique(rows, col) == Cardinality({rows[i][col] : i \in 1..Len(rows)} \ {NaN})

\* ------------------------------------------------------------- data frames
EmptyDataFrame == [columns |-> {}, rows |-> << >>]

RECURSIVE FlattenReversed(_)
FlattenReversed(ss) == IF ss = << >> THEN << >> ELSE FlattenReversed(Tail(ss)) \o Head(ss)

\* Concat with the frames taken last to first
ConcatReversed(ds) ==
    IF ds = << >> THEN EmptyDataFrame
    ELSE [columns |-> UnionCols(ds),
          rows |-> FlattenReversed([i \in 1..Len(ds) |-> ds[i].rows])]

\* pd.concat(dfs, ignore_index=True, sort=False) if dfs else pd.DataFrame()
Concat(ds) ==
    IF ds = << >> THEN EmptyDataFrame
    ELSE [columns |-> UnionCols(ds), rows |-> Flatten([i \in 1..Len(ds) |-> ds[i].rows])]

\* ----------------------------------------------- value_counts().head(5)
RECURSIVE FirstSeen(_, _)
\* distinct non-missing observation codes of rows, in order of first occurrence
FirstSeen(rows, seen) ==
    IF rows = << >> THEN << >>
    ELSE LET c == Head(rows)[ColObs] IN
         IF c = NaN \/ c \in seen THEN FirstSeen(Tail(rows), seen)
         ELSE <<c>> \o FirstSeen(Tail(rows), seen \cup {c})

CodeCount(rows, c) == Cardinality({i \in 1..Len(rows) : rows[i][ColObs] = c})

RECURSIVE SortByCount(_)
\* stable sort of <<code, count>> pairs by count, largest first
SortByCount(ps) ==
    IF ps = << >> THEN << >>
    ELSE LET best == CHOOSE i \in 1..Len(ps) :
                        /\ \A j \in 1..Len(ps) : ps[j][2] <= ps[i][2]
                        /\ \A j \in 1..(i - 1) : ps[j][2] < ps[i][2]
             rest == [k \in 1..(Len(ps) - 1) |-> IF k < best THEN ps[k] ELSE ps[k + 1]]
         IN <<ps[best]>> \o SortByCount(rest)

\* Series.value_counts(): NaN dropped, most frequent first
ValueCounts(rows) ==
    LET cs == FirstSeen(rows, {}) IN
    SortByCount([k \in 1..Len(cs) |-> <<cs[k], CodeCount(rows, cs[k])>>])

HeadN(s, n) == IF Len(s) <= n THEN s ELSE SubSeq(s, 1, n)

\* excluded_df['observation_type'].value_counts().head(5).to_dict()
TopExcluded(excl) == HeadN(ValueCounts(excl), TopN)

\* ------------------------------------------------------------------ inputs
NoneSet == [none |-> TRUE, set |-> {}]                  \* priority_vars=None
SomeSet(S) == [none |-> FALSE, set |-> S]
NoneDict == [none |-> TRUE, dict |-> << >>]             \* var_labels=None
SomeDict(d) == [none |-> FALSE, dict |-> d]
LabelText == [c \in Codes |-> IF c = "bmi_1" THEN "BMI" ELSE "Unknown X"]

\* valid-code sets: none of the codes, one of them, all of them
ValidCodeSets == {{}, {"bmi_1"}, Codes}

\* contents harmonized_vars.tsv can have (var_name -> var_label): a header and no
\* row, or the row of bmi_1
Registries == {[c \in S |-> LabelText[c]] : S \in {{}, {"bmi_1"}}}

\* `if priority_vars:` / `if var_labels:` -- None and the empty container are falsy
TruthySet(pv) == ~pv.none /\ pv.set # {}
TruthyDict(vl) == ~vl.none /\ DOMAIN vl.dict # {}

\* one data row: observation code, participant, decimal value, coded concept
Row(code, part, dec, con) ==
    [c \in DataCols |->
        IF c = ColObs THEN code
        ELSE IF c = ColPart THEN part
        ELSE IF c = ColDec THEN dec
        ELSE con]

\* a row as a frame without some column holds it: the missing fields are NaN
Masked(r, cols) == [c \in DataCols |-> IF c \in cols THEN r[c] ELSE NaN]

SeqsUpTo(S, n) == UNION {[1..k -> S] : k \in 0..n}

\* the frames with the columns cols and up to n rows out of rowset
FramesOver(rowset, cols, n) ==
    {[columns |-> cols, rows |-> rs] : rs \in SeqsUpTo({Masked(r, cols) : r \in rowset}, n)}

\* what pd.read_csv(tsv_file, sep='\t', dtype=str, ...) returns, over-long lines
\* already cut to their first five fields by on_bad_lines: rows of a valid
\* code, of another code and of an empty code field, in files that have or lack
\* the observation_type and associated_participant columns
LoadRows == {Row("bmi_1", "p1", "5", NaN), Row("unknown_x", "p2", "5", NaN), Row(NaN, "p1", "5", NaN)}
FileFrames ==
    FramesOver(LoadRows, {ColObs, ColPart, ColDec}, MaxRows)
    \cup FramesOver({Row("bmi_1", "p1", "5", NaN)}, {ColPart, ColDec}, MaxRows)
    \cup FramesOver({Row("bmi_1", "p1", "5", NaN)}, {ColObs, ColDec}, MaxRows)

\* file_df['source_file'] = ...; file_df['source_dir'] = ...
Tagged(f, name, dir) ==
    [columns |-> f.columns \cup {ColSrcFile, ColSrcDir},
     rows |-> [i \in 1..Len(f.rows) |->
                 [c \in DataCols \cup {ColSrcFile, ColSrcDir} |->
                     IF c = ColSrcFile THEN name
                     ELSE IF c = ColSrcDir THEN dir
                     ELSE f.rows[i][c]]]]

\* ------------------------------------------------------------------- state
VARIABLES
    pc,             \* position in the run
    caller,         \* "main" (script) or "lib" (functions called from a notebook)
    baseExists,     \* whether base_dir exists on disk
    var_labels,     \* dict of get_var_label_lookup / argument of summarize_observations
    priority_vars,  \* argument of load_measurement_observations
    files,          \* the frames read so far, in discovery order
    dfs,            \* load_measurement_observations: dfs
    diag_rows,      \* load_measurement_observations: diag_rows
    result,         \* LoadResult(df, diagnostics)
    summary,        \* return value of summarize_observations
    diag_file,      \* diagnostics_<timestamp>.tsv has been written
    summary_file,   \* measurement_summary_<timestamp>.tsv has been written
    err             \* the exception that ended the run and the function that raised it

vars == <<pc, caller, baseExists, var_labels, priority_vars, files, dfs,
          diag_rows, result, summary, diag_file, summary_file, err>>

NoError == [in |-> "", exc |-> ""]
Raised(fn, e) == [in |-> fn, exc |-> e]
NoTop == [isNone |-> TRUE, items |-> << >>]
NoSummary == [labelled |-> FALSE, rows |-> << >>]

Init ==
    /\ pc = "start"
    /\ caller \in {"main", "lib"}
    /\ baseExists \in BOOLEAN
    /\ var_labels = NoneDict
    /\ priority_vars = NoneSet
    /\ files = << >>
    /\ dfs = << >>
    /\ diag_rows = << >>
    /\ result = [df |-> EmptyDataFrame, diagnostics |-> << >>]
    /\ summary = NoSummary
    /\ diag_file = FALSE
    /\ summary_file = FALSE
    /\ err = NoError

\* ----------------------------------------------------- get_var_label_lookup
\* main: var_labels = get_var_label_lookup(); priority_vars = set(var_labels.keys());
\* then the call of load_measurement_observations starts with empty dfs, diag_rows
GetVarLabelLookup ==
    /\ pc = "start" /\ caller = "main"
    /\ \E reg \in Registries :
          /\ var_labels' = SomeDict(reg)
          /\ priority_vars' = SomeSet(DOMAIN reg)
    /\ pc' = "loop"
    /\ UNCHANGED <<caller, baseExists, files, dfs, diag_rows, result, summary,
                   diag_file, summary_file, err>>

\* open() raises when harmonized_vars.tsv is missing, r['var_name'] when a column is
GetVarLabelLookupFails ==
    /\ pc = "start" /\ caller = "main"
    /\ \E e \in {"FileNotFoundError", "KeyError"} : err' = Raised("get_var_label_lookup", e)
    /\ pc' = "error"
    /\ UNCHANGED <<caller, baseExists, var_labels, priority_vars, files, dfs,
                   diag_rows, result, summary, diag_file, summary_file>>

\* notebook use: load_measurement_observations(base_dir, priority_vars) with any argument
CallLoad ==
    /\ pc = "start" /\ caller = "lib"
    /\ \E pv \in {NoneSet} \cup {SomeSet(S) : S \in ValidCodeSets} : priority_vars' = pv
    /\ pc' = "loop"
    /\ UNCHANGED <<caller, baseExists, var_labels, files, dfs, diag_rows, result, summary,
                   diag_file, summary_file, err>>

\* --------------------------------------------- load_measurement_observations
\* priority_mask = file_df['observation_type'].isin(priority_vars)
PriorityMask(rows, pv) == [i \in 1..Len(rows) |-> rows[i][ColObs] \in pv.set]

Negate(mask) == [i \in DOMAIN mask |-> ~mask[i]]

\* MaskSum with priority_mask.count() in place of priority_mask.sum()
MaskCount(mask) == Cardinality(DOMAIN mask)

\* int(priority_mask.sum())
MaskSum(mask) == Cardinality({i \in DOMAIN mask : mask[i]})

\* the record appended to diag_rows and the frame appended to dfs for one file
FileStep(file_df, pv, name, dir) ==
    LET total_rows == Len(file_df.rows)
        total_participants == NUnique(file_df.rows, ColPart)
        priority_mask == PriorityMask(file_df.rows, pv)
        priority_rows == IF TruthySet(pv) THEN MaskSum(priority_mask) ELSE total_rows
        excluded_rows == IF TruthySet(pv) THEN total_rows - priority_rows ELSE 0
        excluded_df == BoolFilter(file_df.rows, Negate(priority_mask))
        top_excluded == IF TruthySet(pv) THEN TopExcluded(excluded_df) ELSE << >>
        kept == IF TruthySet(pv)
                THEN [columns |-> file_df.columns, rows |-> BoolFilter(file_df.rows, priority_mask)]
                ELSE file_df
    IN [diag |-> [source_dir |-> dir,
                  source_file |-> name,
                  total_rows |-> total_rows,
                  priority_rows |-> priority_rows,
                  excluded_rows |-> excluded_rows,
                  participants |-> total_participants,
                  top_excluded |-> IF top_excluded # << >>
                                   THEN [isNone |-> FALSE, items |-> top_excluded]
                                   ELSE NoTop],
        df |-> kept]

\* the columns one pass of the loop body indexes: a missing one raises KeyError
ColumnsRead(pv) == {ColPart} \cup (IF TruthySet(pv) THEN {ColObs} ELSE {})

\* sorted(base_path.glob("*-remapped")): directories come in the order of their names;
\* the layout modelled has one MeasurementObservation file per directory, so the k-th
\* file read is in the directory of rank k
DirOf(k) == k

\* one pass of the loop body over the next file discovery yields
LoadFile ==
    /\ pc = "loop" /\ baseExists /\ Len(files) < MaxFiles
    /\ \E f \in FileFrames :
          /\ ColumnsRead(priority_vars) \subseteq f.columns
          /\ LET name == Len(files) + 1
                 step == FileStep(Tagged(f, name, DirOf(name)), priority_vars, name, DirOf(name))
             IN /\ diag_rows' = Append(diag_rows, step.diag)
                /\ dfs' = Append(dfs, step.df)
          /\ files' = Append(files, f)
    /\ UNCHANGED <<pc, caller, baseExists, var_labels, priority_vars, result, summary,
                   diag_file, summary_file, err>>

\* the loop body raises KeyError on a file without a column it indexes
LoadFileKeyError ==
    /\ pc = "loop" /\ baseExists /\ Len(files) < MaxFiles
    /\ \E f \in FileFrames :
          /\ ~(ColumnsRead(priority_vars) \subseteq f.columns)
          /\ files' = Append(files, f)
    /\ pc' = "error"
    /\ err' = Raised("load_measurement_observations", "KeyError")
    /\ UNCHANGED <<caller, baseExists, var_labels, priority_vars, dfs, diag_rows, result,
                   summary, diag_file, summary_file>>

\* the globs are exhausted (at once when base_dir does not exist): concat and return
LoadReturn ==
    /\ pc = "loop"
    /\ result' = [df |-> Concat(dfs), diagnostics |-> diag_rows]
    /\ pc' = "loaded"
    /\ UNCHANGED <<caller, baseExists, var_labels, priority_vars, files, dfs,
                   diag_rows, summary, diag_file, summary_file, err>>

\* ---------------------------------------------------- summarize_observations
NA == [isna |-> TRUE, v |-> 0]          \* None / NaN in a numeric cell
Num(x) == [isna |-> FALSE, v |-> x]

\* pd.to_numeric(text, errors='coerce'), in thousandths; text that is no number gives NaN
ToNumeric(text) ==
    IF text = "5" THEN Num(5000)
    ELSE IF text = "2.5" THEN Num(2500)
    ELSE NA

\* CanonicalValue without the fillna from the concept column
CanonicalNoFallback(df, row) == IF ColDec \in df.columns THEN row[ColDec] ELSE NaN

\* df['value'] = df.get(decimal); if the concept column exists: .fillna(df[concept])
CanonicalValue(df, row) ==
    LET value == IF ColDec \in df.columns THEN row[ColDec] ELSE NaN IN
    IF ColCon \in df.columns /\ value = NaN THEN row[ColCon] ELSE value

RECURSIVE SumSeq(_)
SumSeq(s) == IF s = << >> THEN 0 ELSE Head(s) + SumSeq(Tail(s))

RECURSIVE SortAsc(_)
SortAsc(s) ==
    IF s = << >> THEN << >>
    ELSE LET m == CHOOSE i \in 1..Len(s) : \A j \in 1..Len(s) : s[i] <= s[j]
         IN <<s[m]>> \o SortAsc([k \in 1..(Len(s) - 1) |-> IF k < m THEN s[k] ELSE s[k + 1]])

\* num / den rounded to the nearest integer, ties to even (den > 0)
RoundDiv(num, den) ==
    LET q == num \div den
        r == num % den
    IN IF 2 * r < den THEN q
       ELSE IF 2 * r > den THEN q + 1
       ELSE IF q % 2 = 0 THEN q ELSE q + 1

RECURSIVE SqrtFloor(_, _, _, _)
\* the largest r in lo..hi with r * r * den <= num
SqrtFloor(num, den, lo, hi) ==
    IF lo >= hi THEN lo
    ELSE LET mid == (lo + hi + 1) \div 2 IN
         IF mid * mid * den <= num THEN SqrtFloor(num, den, mid, hi)
         ELSE SqrtFloor(num, den, lo, mid - 1)

\* sqrt(num / den) rounded to the nearest integer, known to be at most hi
RoundSqrt(num, den, hi) ==
    LET r == SqrtFloor(num, den, 0, hi) IN
    IF (2 * r + 1) * (2 * r + 1) * den <= 4 * num THEN r + 1 ELSE r

Mean(xs) == RoundDiv(SumSeq(xs), Len(xs))

Median(xs) ==
    LET s == SortAsc(xs)
        n == Len(xs)
    IN IF n % 2 = 1 THEN s[(n + 1) \div 2] ELSE RoundDiv(s[n \div 2] + s[n \div 2 + 1], 2)

\* Std with the population divisor N (ddof=0): 0 for a single value
StdPopulation(xs) ==
    LET n == Len(xs)
        sq == SumSeq([i \in 1..n |-> xs[i] * xs[i]])
        sm == SumSeq(xs)
        srt == SortAsc(xs)
    IN IF n < 1 THEN NA
       ELSE Num(RoundSqrt(n * sq - sm * sm, n * n, srt[n] - srt[1]))

\* Series.std(): sample standard deviation (N - 1 divisor), NaN below two values
Std(xs) ==
    LET n == Len(xs)
        sq == SumSeq([i \in 1..n |-> xs[i] * xs[i]])
        sm == SumSeq(xs)
        srt == SortAsc(xs)
    IN IF n < 2 THEN NA
       ELSE Num(RoundSqrt(n * sq - sm * sm, n * (n - 1), srt[n] - srt[1]))

RECURSIVE DropNA(_)
DropNA(s) ==
    IF s = << >> THEN << >>
    ELSE IF Head(s).isna THEN DropNA(Tail(s)) ELSE <<Head(s).v>> \o DropNA(Tail(s))

\* summarize_group(g) for the rows g of one observation_type
SummarizeGroup(df, g) ==
    LET value == [i \in 1..Len(g) |-> CanonicalValue(df, g[i])]
        numeric_vals == DropNA([i \in 1..Len(g) |-> ToNumeric(value[i])])
        srt == SortAsc(numeric_vals)
        n == Len(g)
        nulls == Cardinality({i \in 1..n : value[i] = NaN})
                 + Cardinality({i \in 1..n : value[i] = "None"})
        some == Len(numeric_vals) > 0
    IN [n |-> n,
        nulls_missing |-> nulls,
        participants |-> NUnique(g, ColPart),
        mean |-> IF some THEN Num(Mean(numeric_vals)) ELSE NA,
        median |-> IF some THEN Num(Median(numeric_vals)) ELSE NA,
        min |-> IF some THEN Num(srt[1]) ELSE NA,
        max |-> IF some THEN Num(srt[Len(srt)]) ELSE NA,
        sd |-> IF some THEN Std(numeric_vals) ELSE NA]

\* df.groupby('observation_type'): the distinct non-missing keys, sorted
GroupKeys(df) ==
    LET present == {df.rows[i][ColObs] : i \in 1..Len(df.rows)} \ {NaN}
        keep == [k \in 1..Len(CodeOrder) |-> CodeOrder[k] \in present]
    IN BoolFilter(CodeOrder, keep)

\* GroupRows without the split by key
GroupRowsAll(df, code) == df.rows

\* the rows of the group of one key
GroupRows(df, code) ==
    BoolFilter(df.rows, [i \in 1..Len(df.rows) |-> df.rows[i][ColObs] = code])

\* summary['label'] = summary['observation_type'].map(var_labels)
LabelOf(vl, code) == IF code \in DOMAIN vl.dict THEN vl.dict[code] ELSE NaN

SummarizeObservations(df, vl) ==
    LET keys == GroupKeys(df) IN
    [labelled |-> TruthyDict(vl),
     rows |-> [k \in 1..Len(keys) |->
                 [observation_type |-> keys[k],
                  label |-> IF TruthyDict(vl) THEN LabelOf(vl, keys[k]) ELSE NaN,
                  stats |-> SummarizeGroup(df, GroupRows(df, keys[k]))]]]

\* groupby('observation_type') needs the column; summarize_group indexes
\* g['associated_participant'] once there is a group
SummarizeRaises(df) ==
    \/ ColObs \notin df.columns
    \/ (GroupKeys(df) # << >> /\ ColPart \notin df.columns)

\* with the key column and no group (no row, or only rows with an empty code)
\* summarize_group never runs: what groupby(...).apply(...).reset_index() and the
\* label lookup then do is left to the pandas version, which returns an empty
\* summary or raises
SummarizeMayRaise(df) == ColObs \in df.columns /\ GroupKeys(df) = << >>

Summarize ==
    /\ pc = "summarize"
    /\ ~SummarizeRaises(result.df)
    /\ summary' = SummarizeObservations(result.df, var_labels)
    /\ pc' = "summarized"
    /\ UNCHANGED <<caller, baseExists, var_labels, priority_vars, files, dfs,
                   diag_rows, result, diag_file, summary_file, err>>

SummarizeKeyError ==
    /\ pc = "summarize"
    /\ SummarizeRaises(result.df)
    /\ pc' = "error"
    /\ err' = Raised("summarize_observations", "KeyError")
    /\ UNCHANGED <<caller, baseExists, var_labels, priority_vars, files, dfs,
                   diag_rows, result, summary, diag_file, summary_file>>

SummarizeNoGroupsError ==
    /\ pc = "summarize"
    /\ SummarizeMayRaise(result.df)
    /\ pc' = "error"
    /\ err' = Raised("summarize_observations", "ValueError")
    /\ UNCHANGED <<caller, baseExists, var_labels, priority_vars, files, dfs,
                   diag_rows, result, summary, diag_file, summary_file>>

\* ---------------------------------------------------------------------- main
\* result.diagnostics.to_csv(diag_file, ...)
SaveDiagnostics ==
    /\ pc = "loaded" /\ caller = "main"
    /\ diag_file' = TRUE
    /\ pc' = "summarize"
    /\ UNCHANGED <<caller, baseExists, var_labels, priority_vars, files, dfs,
                   diag_rows, result, summary, summary_file, err>>

\* summary.to_csv(summary_file, ...), then the quick stats are printed
SaveSummary ==
    /\ pc = "summarized" /\ caller = "main"
    /\ summary_file' = TRUE
    /\ pc' = "done"
    /\ UNCHANGED <<caller, baseExists, var_labels, priority_vars, files, dfs,
                   diag_rows, result, summary, diag_file, err>>

Next ==
    \/ GetVarLabelLookup
    \/ GetVarLabelLookupFails
    \/ CallLoad
    \/ LoadFile
    \/ LoadFileKeyError
    \/ LoadReturn
    \/ SaveDiagnostics
    \/ Summarize
    \/ SummarizeKeyError
    \/ SummarizeNoGroupsError
    \/ SaveSummary

Spec == Init /\ [][Next]_vars

\* ------------------------------- summarize_observations called on its own
\* decimal and concept fields of a row: both empty, concept only, the text "None",
\* text that is no number, a number, a number beside a concept
SumValues == {<<NaN, NaN>>, <<NaN, "5">>, <<"None", NaN>>, <<"abc", NaN>>,
              <<"2.5", NaN>>, <<"2.5", "5">>}
SumRows == {Row(c, p, v[1], v[2]) : c \in Codes \cup {NaN}, p \in Parts, v \in SumValues}
SumColumnSets == {DataCols, DataCols \ {ColCon}, DataCols \ {ColDec}, DataCols \ {ColObs}}

\* the frame with the columns cols whose rows are rs
Frame(cols, rs) == [columns |-> cols, rows |-> [i \in DOMAIN rs |-> Masked(rs[i], cols)]]
SumLabels == {NoneDict, SomeDict(<< >>), SomeDict([c \in {"bmi_1"} |-> LabelText[c]])}

\* summarize_observations(df, var_labels) is about to run on any frame and label map
InitSum ==
    /\ pc = "summarize"
    /\ caller = "lib"
    /\ baseExists = TRUE
    /\ var_labels \in SumLabels
    /\ priority_vars = NoneSet
    /\ files = << >>
    /\ dfs = << >>
    /\ diag_rows = << >>
    /\ \E cols \in SumColumnSets \cup {{}}, n \in 0..MaxDfRows :
          /\ cols = {} => n = 0
          /\ \E rs \in [1..n -> SumRows] :
                result = [df |-> Frame(cols, rs), diagnostics |-> << >>]
    /\ summary = NoSummary
    /\ diag_file = FALSE
    /\ summary_file = FALSE
    /\ err = NoError

NextSum ==
    \/ Summarize
    \/ SummarizeKeyError
    \/ SummarizeNoGroupsError

SpecSum == InitSum /\ [][NextSum]_vars

\* ==================================================================== claims
AfterLoad == pc \in {"loaded", "summarize", "summarized", "done"}

\* the rows of file i as load_measurement_observations tags them
TaggedRows(i) == Tagged(files[i], i, DirOf(i)).rows

CodesOf(rows) == {rows[i][ColObs] : i \in 1..Len(rows)}

\* C1: for every supplied valid-code set, the empty set included, every row kept
\* from a file has an observation_type in the set; with no set supplied every
\* row of the file is kept.
C1_KeptRowsAreValidCodes ==
    \A i \in 1..Len(dfs) :
        /\ ~priority_vars.none => CodesOf(dfs[i].rows) \subseteq priority_vars.set
        /\ priority_vars.none => dfs[i].rows = TaggedRows(i)

\* C2: in every per-file diagnostic record total_rows = priority_rows +
\* excluded_rows, priority_rows is the number of the file's rows appended to the
\* dataset, and both counters are non-negative.
C2_DiagCountsAddUp ==
    /\ Len(diag_rows) = Len(dfs)
    /\ \A i \in 1..Len(diag_rows) :
          LET d == diag_rows[i] IN
          /\ d.total_rows = Len(files[i].rows)
          /\ d.total_rows = d.priority_rows + d.excluded_rows
          /\ d.priority_rows = Len(dfs[i].rows)
          /\ d.priority_rows >= 0
          /\ d.excluded_rows >= 0
    /\ AfterLoad => result.diagnostics = diag_rows

\* a file with a null observation code among its rejected rows and a retained row
C2_Witness ==
    \E i \in 1..Len(diag_rows) :
        /\ ~priority_vars.none
        /\ NaN \in CodesOf(files[i].rows)
        /\ diag_rows[i].excluded_rows > 0
        /\ diag_rows[i].priority_rows > 0

\* C3: summarize_observations returns exactly one row per distinct observation
\* code of the dataset, and the n of each row is the number of dataset rows
\* with that code.
C3_OneRowPerCodeWithCount ==
    pc = "summarized" =>
        LET rows == result.df.rows
            codes == CodesOf(rows) \ {NaN}
        IN /\ {summary.rows[k].observation_type : k \in 1..Len(summary.rows)} = codes
           /\ Len(summary.rows) = Cardinality(codes)
           /\ \A k \in 1..Len(summary.rows) :
                 summary.rows[k].stats.n =
                     Cardinality({i \in 1..Len(rows) :
                                     rows[i][ColObs] = summary.rows[k].observation_type})

\* a summary of a dataset holding two distinct codes
C3_Witness ==
    /\ pc = "summarized"
    /\ Len(summary.rows) = 2
    /\ Len(result.df.rows) >= 2

\* C4: when base_dir does not exist, load_measurement_observations fails with an
\* I/O error; it does not return an empty result.
C4_MissingBaseDirFails ==
    ~baseExists =>
        \/ pc \in {"start", "loop"}
        \/ pc = "error" /\ err.in \in {"get_var_label_lookup", "load_measurement_observations"}

\* C5: a file lacking observation_type or associated_participant makes the load
\* fail, with or without a valid-code set; it contributes neither rows nor a
\* diagnostic record.
C5_MissingColumnFails ==
    \A i \in 1..Len(files) :
        ~({ColObs, ColPart} \subseteq files[i].columns) =>
            /\ i > Len(dfs)
            /\ i > Len(diag_rows)
            /\ pc = "error"
            /\ err.in = "load_measurement_observations"

\* C6: when a run of main aborts with a fatal error, neither the diagnostics
\* file nor the summary file has been written.
C6_NothingPersistedOnAbort ==
    (caller = "main" /\ pc = "error") => (~diag_file /\ ~summary_file)

\* the canonical value of a row as the claim words it: the decimal field, or the
\* coded-concept field when the decimal field is null or absent
ClaimCanonical(row) == IF row[ColDec] # NaN THEN row[ColDec] ELSE row[ColCon]

ClaimIsNumber(text) == text \in {"5", "2.5"}
ClaimNumber(text) == IF text = "5" THEN 5000 ELSE 2500

\* positions of the dataset rows of one observation code
ClaimGroup(code) == {i \in 1..Len(result.df.rows) : result.df.rows[i][ColObs] = code}

ClaimParsed(code) == {i \in ClaimGroup(code) : ClaimIsNumber(ClaimCanonical(result.df.rows[i]))}

RECURSIVE SetSum(_, _)
SetSum(S, f) == IF S = {} THEN 0 ELSE LET x == CHOOSE y \in S : TRUE IN f[x] + SetSum(S \ {x}, f)

\* C7: nulls_missing of a group is the number of its rows whose canonical value
\* is null or the text "None"; a row with an empty decimal field and concept "5"
\* is not missing and counts as 5 in the numeric statistics; a row whose
\* canonical value is text that is no number is in n, not missing, not numeric.
C7_CanonicalValueAndMissing ==
    pc = "summarized" =>
        \A k \in 1..Len(summary.rows) :
            LET st == summary.rows[k].stats
                rows == result.df.rows
                g == ClaimGroup(summary.rows[k].observation_type)
                parsed == ClaimParsed(summary.rows[k].observation_type)
                val == [i \in parsed |-> ClaimNumber(ClaimCanonical(rows[i]))]
                total == SetSum(parsed, val)
                cnt == Cardinality(parsed)
            IN /\ st.n = Cardinality(g)
               /\ st.nulls_missing =
                     Cardinality({i \in g : ClaimCanonical(rows[i]) \in {NaN, "None"}})
               /\ (parsed = {}) = st.mean.isna
               /\ parsed # {} =>
                     /\ ~st.min.isna /\ \A i \in parsed : st.min.v <= val[i]
                     /\ ~st.max.isna /\ \A i \in parsed : st.max.v >= val[i]
                     /\ \E i \in parsed : st.min.v = val[i]
                     /\ \E i \in parsed : st.max.v = val[i]
                     /\ 2 * (st.mean.v * cnt - total) <= cnt
                     /\ 2 * (total - st.mean.v * cnt) <= cnt

\* a group of a row with an empty decimal field and concept "5" and a row of
\* text that is no number: n = 2, nothing missing, mean 5
C7_Witness ==
    /\ pc = "summarized"
    /\ \E k \in 1..Len(summary.rows) :
          LET g == ClaimGroup(summary.rows[k].observation_type)
              rows == result.df.rows
          IN /\ \E i \in g : rows[i][ColDec] = NaN /\ rows[i][ColCon] = "5"
             /\ \E i \in g : ClaimCanonical(rows[i]) = "abc"
             /\ summary.rows[k].stats.n = 2
             /\ summary.rows[k].stats.nulls_missing = 0
             /\ summary.rows[k].stats.mean = Num(5000)

\* C8: a group none of whose canonical values is a number has mean, median,
\* min, max and sd absent; with at least one number mean, median, min and max
\* are present; with exactly one number sd is absent.
C8_NumericAbsence ==
    pc = "summarized" =>
        \A k \in 1..Len(summary.rows) :
            LET st == summary.rows[k].stats
                cnt == Cardinality(ClaimParsed(summary.rows[k].observation_type))
            IN /\ cnt = 0 => (st.mean.isna /\ st.median.isna /\ st.min.isna
                              /\ st.max.isna /\ st.sd.isna)
               /\ cnt >= 1 => (~st.mean.isna /\ ~st.median.isna /\ ~st.min.isna
                               /\ ~st.max.isna)
               /\ cnt = 1 => st.sd.isna

\* a group of two rows of which exactly one holds a number: sd absent, mean present
C8_Witness ==
    /\ pc = "summarized"
    /\ \E k \in 1..Len(summary.rows) :
          /\ Cardinality(ClaimParsed(summary.rows[k].observation_type)) = 1
          /\ summary.rows[k].stats.n = 2
          /\ summary.rows[k].stats.sd.isna
          /\ ~summary.rows[k].stats.mean.isna

\* the rows of file i that the loader retains
ClaimRetained(i) ==
    LET InSet(r) == r[ColObs] \in priority_vars.set IN
    IF priority_vars.none \/ priority_vars.set = {} THEN TaggedRows(i)
    ELSE SelectSeq(TaggedRows(i), InSet)

RECURSIVE ClaimDataset(_)
\* retained rows of files 1..k, file by file
ClaimDataset(k) == IF k = 0 THEN << >> ELSE ClaimDataset(k - 1) \o ClaimRetained(k)

\* C9: after any number of files processed the diagnostics hold one record per
\* processed file in discovery order and the dataset is the concatenation, in
\* file order and row order, of each file's retained rows; with zero files the
\* call does not fail and returns an empty dataset and empty diagnostics.
C9_OrderedConcatenation ==
    /\ pc # "error" => Len(files) = Len(diag_rows)
    /\ \A i \in 1..Len(diag_rows) :
          /\ diag_rows[i].source_file = i
          /\ diag_rows[i].source_dir = DirOf(i)
    /\ Len(dfs) = Len(diag_rows)
    /\ \A i \in 1..Len(dfs) : dfs[i].rows = ClaimRetained(i)
    /\ LET dataset == ClaimDataset(Len(dfs)) IN
       /\ Concat(dfs).rows = dataset
       /\ AfterLoad => (Len(files) = Len(dfs) /\ result.df.rows = dataset)
    /\ AfterLoad =>
          /\ result.diagnostics = diag_rows
          /\ files = << >> => (result.df = EmptyDataFrame /\ result.diagnostics = << >>)
    /\ (pc = "error" /\ err.in = "load_measurement_observations") => files # << >>

\* two files loaded and returned: the first keeps two different rows, the
\* second keeps some rows and loses some
C9_Witness ==
    /\ pc = "loaded"
    /\ Len(files) = 2
    /\ Len(dfs[1].rows) = 2
    /\ dfs[1].rows[1] # dfs[1].rows[2]
    /\ Len(dfs[2].rows) >= 1
    /\ diag_rows[2].excluded_rows > 0
    /\ Len(result.df.rows) = 3

\* C10: with a valid-code set supplied, top_excluded is absent exactly when the
\* file has no rejected row; otherwise it has at most 5 entries, every key is a
\* code outside the set, every count is the number of rejected rows with that
\* code, and no rejected code left out has a higher count than one included.
\* With no set supplied top_excluded is absent and excluded_rows is 0.
C10_TopExcluded ==
    \A i \in 1..Len(diag_rows) :
        LET d == diag_rows[i]
            rows == files[i].rows
            Rejected(c) == {j \in 1..Len(rows) : rows[j][ColObs] = c /\ c \notin priority_vars.set}
            items == d.top_excluded.items
            keys == {items[k][1] : k \in 1..Len(items)}
        IN IF priority_vars.none
           THEN d.top_excluded.isNone /\ d.excluded_rows = 0
           ELSE /\ d.top_excluded.isNone <=> d.excluded_rows = 0
                /\ ~d.top_excluded.isNone =>
                      /\ Len(items) <= 5
                      /\ Len(items) >= 1
                      /\ \A k \in 1..Len(items) :
                            /\ items[k][1] \notin priority_vars.set
                            /\ items[k][2] = Cardinality(Rejected(items[k][1]))
                            /\ \A c \in Codes \ keys :
                                  Cardinality(Rejected(c)) <= items[k][2]

====
